---- MODULE Spec2Model ----
(***************************************************************************)
(* loopforge: the LoopRecord state machine (states.py), the LoopService    *)
(* that drives it against a repository (service.py), the in-memory         *)
(* repository (repository.py) and the delete and the failing save of the   *)
(* DynamoDB repository (adapters/dynamodb.py).                             *)
(*                                                                         *)
(* Conventions.  An Optional[T] value is None (the empty tuple) or         *)
(* Some(x) (a one-element tuple).  A LoopState member is written with its  *)
(* Python member name ("ISSUE_CREATED"); its .value is the lower-case      *)
(* string ("issue_created") that history entries and serialized records    *)
(* hold.  A timestamp is the tick of the wall clock at which _now() was    *)
(* called.  A dict is a TLA+ function; the empty dict is EmptyDict.        *)
(***************************************************************************)
EXTENDS Integers, Sequences, FiniteSets, TLC

VARIABLES
    record,   \* the LoopRecord object a caller holds and drives directly
    ret,      \* the last direct call on `record`: its name, argument, return value
    clock,    \* the wall clock read by _now()
    store,    \* MemoryRepository._store: record_id -> serialized record
    hooks,    \* LoopService._hooks, in registration order
    nextId,   \* how many record ids have been generated so far
    svc,      \* the last LoopService / repository call and what it did
    calls     \* the LoopService.transition calls under way, one frame per caller

vars == <<record, ret, clock, store, hooks, nextId, svc, calls>>

(***************************************************************************)
(* Bounds of the model.                                                    *)
(***************************************************************************)
\* longest history a record is driven to (1 created entry + 6 transitions
\* reaches every one of the ten states, closed included)
MaxHist == 7
\* last tick of the wall clock; time stands still afterwards
MaxClock == 1
\* how many records LoopService.create makes in one run
MaxRecords == 1
\* how many history entries the repository holds in all, over its records
MaxStoreHist == 7
\* how many hooks are registered on the service
MaxHooks == 1
\* how many hooks the service the callers share comes to have
MaxRunHooks == 2
\* how many records are created in the repository that is listed
MaxRepoRecords == 2
\* longest history a record is driven to by the racing callers
MaxRaceHist == 5

None == <<>>
Some(x) == <<x>>
EmptyDict == [k \in {} |-> ""]
\* F(v), with v worked out once (a local variable of the code)
With(v, F(_)) == CHOOSE out \in {F(x) : x \in {v}} : TRUE

(***************************************************************************)
(* states.py                                                               *)
(***************************************************************************)
LoopState ==
    {"ISSUE_CREATED", "TASK_QUEUED", "PR_CREATED", "CI_PENDING", "CI_PASSED",
     "CI_FAILED", "AWAITING_REVIEW", "APPROVED", "MERGED", "CLOSED"}

\* LoopState.<member>.value
value(s) ==
    CASE s = "ISSUE_CREATED"   -> "issue_created"
      [] s = "TASK_QUEUED"     -> "task_queued"
      [] s = "PR_CREATED"      -> "pr_created"
      [] s = "CI_PENDING"      -> "ci_pending"
      [] s = "CI_PASSED"       -> "ci_passed"
      [] s = "CI_FAILED"       -> "ci_failed"
      [] s = "AWAITING_REVIEW" -> "awaiting_review"
      [] s = "APPROVED"        -> "approved"
      [] s = "MERGED"          -> "merged"
      [] s = "CLOSED"          -> "closed"

\* LoopState(v): the member whose value is v (the enum lookup pydantic does
\* when it validates the "state" field of a serialized record)
LoopStateOf(v) ==
    CASE v = "issue_created"   -> "ISSUE_CREATED"
      [] v = "task_queued"     -> "TASK_QUEUED"
      [] v = "pr_created"      -> "PR_CREATED"
      [] v = "ci_pending"      -> "CI_PENDING"
      [] v = "ci_passed"       -> "CI_PASSED"
      [] v = "ci_failed"       -> "CI_FAILED"
      [] v = "awaiting_review" -> "AWAITING_REVIEW"
      [] v = "approved"        -> "APPROVED"
      [] v = "merged"          -> "MERGED"
      [] v = "closed"          -> "CLOSED"

\* the table as written in states.py
TransitionTable ==
    [s \in LoopState |->
        CASE s = "ISSUE_CREATED"   -> <<"TASK_QUEUED">>
          [] s = "TASK_QUEUED"     -> <<"PR_CREATED">>
          [] s = "PR_CREATED"      -> <<"CI_PENDING">>
          [] s = "CI_PENDING"      -> <<"CI_PASSED", "CI_FAILED">>
          [] s = "CI_PASSED"       -> <<"MERGED", "AWAITING_REVIEW">>
          [] s = "CI_FAILED"       -> <<"CI_PENDING">>
          [] s = "AWAITING_REVIEW" -> <<"APPROVED", "CI_PENDING">>
          [] s = "APPROVED"        -> <<"MERGED">>
          [] s = "MERGED"          -> <<"CLOSED">>
          [] s = "CLOSED"          -> <<>>]

\* mutant: task_queued may go back to issue_created
VALID_TRANSITIONS_requeue ==
    [TransitionTable EXCEPT !["TASK_QUEUED"] = <<"PR_CREATED", "ISSUE_CREATED">>]

\* mutant: closed may be left again, and re-entered
VALID_TRANSITIONS_reopen ==
    [TransitionTable EXCEPT !["CLOSED"] = <<"CI_PENDING", "CLOSED">>]

\* mutant: a failed CI sends the record back to pr_created as well
VALID_TRANSITIONS_rework ==
    [TransitionTable EXCEPT !["CI_FAILED"] = <<"CI_PENDING", "PR_CREATED">>]

VALID_TRANSITIONS == TransitionTable

\* dict.get(key, default)
DictGet(d, key, default) == IF key \in DOMAIN d THEN d[key] ELSE default

\* x in list
InList(x, list) == \E i \in 1..Len(list) : list[i] = x

\* list[-1]
Last(seq) == seq[Len(seq)]

LoopTransition(from_state, to_state, trigger, timestamp, metadata) ==
    [from_state |-> from_state, to_state |-> to_state, trigger |-> trigger,
     timestamp |-> timestamp, metadata |-> metadata]

\* `x or {}` for an Optional[dict] argument: None and the empty dict give {}
OrEmpty(x) == IF x = None \/ x = Some(EmptyDict) THEN EmptyDict ELSE x[1]

\* mutant: `new_state in VALID_TRANSITIONS`, the keys instead of the list
can_transition_to_keys(self, new_state) ==
    new_state \in DOMAIN VALID_TRANSITIONS

can_transition_to(self, new_state) ==
    InList(new_state, DictGet(VALID_TRANSITIONS, self.state, <<>>))

\* what transition_to does once the check has passed
Applied(self, new_state, trigger, metadata, c, ds, closing) ==
    LET t1 == c + ds[1]
        t2 == t1 + ds[2]
        t3 == t2 + ds[3]
        entry == LoopTransition(Some(value(self.state)), value(new_state),
                                trigger, t1, OrEmpty(metadata))
        moved == [self EXCEPT !.transitions = Append(@, entry),
                              !.state = new_state,
                              !.updated_at = t2]
    IN  IF new_state = closing
        THEN [result |-> TRUE,
              self |-> [moved EXCEPT !.closed_at = Some(t3)],
              clock |-> t3]
        ELSE [result |-> TRUE, self |-> moved, clock |-> t2]

\* mutant: no validity check
transition_to_unchecked(self, new_state, trigger, metadata, c, ds) ==
    Applied(self, new_state, trigger, metadata, c, ds, "CLOSED")

\* mutant: the entry is appended, self.state is not set
transition_to_stale_state(self, new_state, trigger, metadata, c, ds) ==
    IF ~can_transition_to(self, new_state)
    THEN [result |-> FALSE, self |-> self, clock |-> c]
    ELSE LET r == Applied(self, new_state, trigger, metadata, c, ds, "CLOSED")
         IN  [r EXCEPT !.self.state = self.state]

\* mutant: updated_at is refreshed before the check
transition_to_touch(self, new_state, trigger, metadata, c, ds) ==
    IF ~can_transition_to(self, new_state)
    THEN [result |-> FALSE, self |-> [self EXCEPT !.updated_at = c + ds[1]],
          clock |-> c + ds[1]]
    ELSE Applied(self, new_state, trigger, metadata, c, ds, "CLOSED")

\* mutant: closed_at is set on reaching merged instead of closed
transition_to_closed_at_merged(self, new_state, trigger, metadata, c, ds) ==
    IF ~can_transition_to(self, new_state)
    THEN [result |-> FALSE, self |-> self, clock |-> c]
    ELSE Applied(self, new_state, trigger, metadata, c, ds, "MERGED")

\* mutant: transitions.insert(0, entry), the new entry goes to the front
transition_to_prepend(self, new_state, trigger, metadata, c, ds) ==
    IF ~can_transition_to(self, new_state)
    THEN [result |-> FALSE, self |-> self, clock |-> c]
    ELSE LET r == Applied(self, new_state, trigger, metadata, c, ds, "CLOSED")
         IN  [r EXCEPT !.self.transitions =
                          <<Last(r.self.transitions)>> \o self.transitions]

\* mutant: transition_to also refuses a state the history has been in before,
\* which can_transition_to does not look at
transition_to_no_revisit(self, new_state, trigger, metadata, c, ds) ==
    IF \/ ~can_transition_to(self, new_state)
       \/ \E i \in 1..Len(self.transitions) :
             self.transitions[i].to_state = value(new_state)
    THEN [result |-> FALSE, self |-> self, clock |-> c]
    ELSE Applied(self, new_state, trigger, metadata, c, ds, "CLOSED")

\* mutant: updated_at is left as it was
transition_to_keep_updated_at(self, new_state, trigger, metadata, c, ds) ==
    IF ~can_transition_to(self, new_state)
    THEN [result |-> FALSE, self |-> self, clock |-> c]
    ELSE LET r == Applied(self, new_state, trigger, metadata, c, ds, "CLOSED")
         IN  [r EXCEPT !.self.updated_at = self.updated_at]

\* transition_to on `self` with the clock at c; ds[i] is the time that passes
\* before the i-th call of _now().  Gives the return value, the record as the
\* call leaves it, and the clock.
transition_to(self, new_state, trigger, metadata, c, ds) ==
    IF ~can_transition_to(self, new_state)
    THEN [result |-> FALSE, self |-> self, clock |-> c]
    ELSE LET t1 == c + ds[1]
             t2 == t1 + ds[2]
             t3 == t2 + ds[3]
             entry == LoopTransition(Some(value(self.state)), value(new_state),
                                     trigger, t1, OrEmpty(metadata))
             moved == [self EXCEPT !.transitions = Append(@, entry),
                                   !.state = new_state,
                                   !.updated_at = t2]
         IN  IF new_state = "CLOSED"
             THEN [result |-> TRUE,
                   self |-> [moved EXCEPT !.closed_at = Some(t3)],
                   clock |-> t3]
             ELSE [result |-> TRUE, self |-> moved, clock |-> t2]

\* create_record with the generated id given; the LoopRecord constructor reads
\* the clock for created_at and updated_at, the LoopTransition for timestamp
create_record(id, ref, ref_number, repo, auto_merge, labels, c, ds) ==
    LET t1 == c + ds[1]
        t2 == t1 + ds[2]
        t3 == t2 + ds[3]
        fresh == [record_id |-> id, ref |-> ref, ref_number |-> ref_number,
                  repo |-> repo, pr_url |-> None, pr_number |-> None,
                  state |-> "ISSUE_CREATED", auto_merge |-> auto_merge,
                  ci_status |-> EmptyDict, transitions |-> <<>>,
                  labels |-> OrEmpty(labels),
                  created_at |-> t1, updated_at |-> t2, closed_at |-> None]
        entry == LoopTransition(None, value("ISSUE_CREATED"), "created", t3,
                                [ref |-> Some(ref), repo |-> repo])
    IN  [self |-> [fresh EXCEPT !.transitions = Append(@, entry)], clock |-> t3]

\* A value of type Any (the values of LoopTransition.metadata) is written
\* <<type, content>>.
Str(x) == <<"str", x>>
PyTuple(items) == <<"tuple", items>>
PyList(items) == <<"list", items>>

\* what model_dump(mode="json") makes of a value of type Any: a tuple becomes
\* a list, a str (and a value of a field typed Optional[str]) stays as it is
IsTuple(v) == Len(v) = 2 /\ v[1] = "tuple"
to_jsonable(v) == IF IsTuple(v) THEN PyList(v[2]) ELSE v

\* model_dump(mode="json") of a LoopTransition: every field is a str but
\* metadata, whose values are made JSON values
dump_transition(e) ==
    [e EXCEPT !.metadata = [k \in DOMAIN e.metadata |-> to_jsonable(e.metadata[k])]]

\* LoopRecord.to_dict: model_dump(mode="json"), the state as its string value
to_dict(self) ==
    [self EXCEPT !.state = value(self.state),
                 !.transitions = [i \in 1..Len(self.transitions) |->
                                     dump_transition(self.transitions[i])]]

\* LoopRecord.from_dict: model_validate, the state string back to its member
from_dict(data) == [data EXCEPT !.state = LoopStateOf(data.state)]

(***************************************************************************)
(* repository.py: MemoryRepository.  _store is a Python dict, which keeps  *)
(* its keys in insertion order: a sequence of <<key, data>> items.         *)
(***************************************************************************)
Keys(st) == {st[i][1] : i \in 1..Len(st)}

\* _store.get(key): the data under key, or None
StoreGet(st, key) ==
    IF key \in Keys(st)
    THEN Some(st[CHOOSE i \in 1..Len(st) : st[i][1] = key][2])
    ELSE None

\* mutant: a list of items that is appended to, not a dict
StoreSet_append(st, key, data) == Append(st, <<key, data>>)

\* _store[key] = data: in place when the key is there, else at the end
StoreSet(st, key, data) ==
    IF key \in Keys(st)
    THEN [i \in 1..Len(st) |-> IF st[i][1] = key THEN <<key, data>> ELSE st[i]]
    ELSE Append(st, <<key, data>>)

\* del _store[key]
StoreDel(st, key) == SelectSeq(st, LAMBDA item : item[1] # key)

\* mutant: a save that adds the record's newest entry to the history that is
\* stored instead of replacing the stored data
save_add_entry(st, rec) ==
    With(StoreGet(st, rec.record_id),
    LAMBDA old :
        [result |-> rec,
         store |-> StoreSet(st, rec.record_id,
                      IF old = None THEN to_dict(rec)
                      ELSE [to_dict(rec) EXCEPT !.transitions =
                               Append(old[1].transitions,
                                      Last(to_dict(rec).transitions))])])

save(st, rec) ==
    [result |-> rec, store |-> StoreSet(st, rec.record_id, to_dict(rec))]

get(st, record_id) ==
    LET data == StoreGet(st, record_id)
    IN  IF data = None THEN None ELSE Some(from_dict(data[1]))

\* the repository after save was called with each of recs in turn
RECURSIVE SaveAll(_, _)
SaveAll(st, recs) ==
    IF Len(recs) = 0 THEN st ELSE SaveAll(save(st, recs[1]).store, Tail(recs))

delete(st, record_id) ==
    IF record_id \in Keys(st)
    THEN [result |-> TRUE, store |-> StoreDel(st, record_id)]
    ELSE [result |-> FALSE, store |-> st]

\* mutant: `len(results) <= limit`
RECURSIVE list_from_le(_, _, _, _)
list_from_le(st, state, limit, results) ==
    IF Len(st) = 0 THEN results
    ELSE list_from_le(Tail(st), state, limit,
             IF st[1][2].state = state /\ Len(results) <= limit
             THEN Append(results, from_dict(st[1][2]))
             ELSE results)

\* the loop of list_by_state over the values still to visit, `results` so far
RECURSIVE list_from(_, _, _, _)
list_from(st, state, limit, results) ==
    IF Len(st) = 0 THEN results
    ELSE list_from(Tail(st), state, limit,
             IF DictGet(st[1][2], "state", None) = state /\ Len(results) < limit
             THEN Append(results, from_dict(st[1][2]))
             ELSE results)

list_by_state(st, state, limit) == list_from(st, state, limit, <<>>)

(***************************************************************************)
(* adapters/dynamodb.py: DynamoDBRepository.  The table holds one item per *)
(* record_id: put_item replaces the item under the key as the dict         *)
(* assignment does, get_item reads it.                                     *)
(***************************************************************************)
\* DynamoDBRepository.delete: delete_item succeeds whether or not an item is
\* under the key, and True is returned after it
dynamodb_delete(st, record_id) ==
    [result |-> TRUE, store |-> StoreDel(st, record_id)]

(***************************************************************************)
(* service.py: LoopService.  A message is the sequence of the pieces its   *)
(* f-string is put together from.  A hook is what it does when called:     *)
(* "returns", or "raises" (an Exception).                                  *)
(***************************************************************************)
TransitionResult(success, rec, error, previous_state, new_state) ==
    [success |-> success, record |-> rec, error |-> error,
     previous_state |-> previous_state, new_state |-> new_state]

\* sep.join(items)
RECURSIVE Join(_, _)
Join(sep, items) ==
    IF Len(items) = 0 THEN <<>>
    ELSE IF Len(items) = 1 THEN <<items[1]>>
    ELSE <<items[1], sep>> \o Join(sep, Tail(items))

\* the for loop over self._hooks: each hook is called with
\* (record, previous_state, new_state, trigger), in order; an Exception it
\* raises is caught and logged, and the loop goes on
RECURSIVE run_hooks(_, _, _, _, _, _)
run_hooks(hks, i, rec, previous_state, new_state, trigger) ==
    IF i > Len(hks) THEN <<>>
    ELSE <<[hook |-> i, record |-> rec, previous_state |-> previous_state,
            new_state |-> new_state, trigger |-> trigger,
            raised |-> (hks[i] = "raises")]>>
         \o run_hooks(hks, i + 1, rec, previous_state, new_state, trigger)

\* the result for a target the table does not allow from the loaded record,
\* with the list the message enumerates
InvalidTransition(rec, new_state, allowed) ==
    TransitionResult(FALSE, Some(rec),
        Some(<<"Invalid transition: ", value(rec.state), " → ", value(new_state),
               ". Allowed from ", value(rec.state), ": ">>
             \o (IF Len(allowed) > 0
                 THEN Join(", ", [i \in 1..Len(allowed) |-> value(allowed[i])])
                 ELSE <<"none (terminal)">>)),
        Some(rec.state), None)

\* what LoopService.transition does once the loaded record passed the check
Performed(hks, rec, new_state, trigger, metadata, c, ds) ==
    With(transition_to(rec, new_state, trigger, metadata, c, ds),
    LAMBDA r :
        [result |-> TransitionResult(TRUE, Some(r.self), None,
                                     Some(rec.state), Some(new_state)),
         saves |-> <<r.self>>,
         hook_calls |-> run_hooks(hks, 1, r.self, rec.state, new_state, trigger),
         raised |-> None, clock |-> r.clock])

\* mutant: the hooks are told of a refused transition too
transition_loaded_notify_always(st, hks, rec, new_state, trigger, metadata, c, ds) ==
    IF ~can_transition_to(rec, new_state)
    THEN [result |-> InvalidTransition(rec, new_state,
                         DictGet(VALID_TRANSITIONS, rec.state, <<>>)),
          saves |-> <<>>,
          hook_calls |-> run_hooks(hks, 1, rec, rec.state, new_state, trigger),
          raised |-> None, clock |-> c]
    ELSE Performed(hks, rec, new_state, trigger, metadata, c, ds)

\* mutant: the message lists what the target allows, not the current state
transition_loaded_allowed_of_target(st, hks, rec, new_state, trigger, metadata, c, ds) ==
    IF ~can_transition_to(rec, new_state)
    THEN [result |-> InvalidTransition(rec, new_state,
                         DictGet(VALID_TRANSITIONS, new_state, <<>>)),
          saves |-> <<>>, hook_calls |-> <<>>, raised |-> None, clock |-> c]
    ELSE Performed(hks, rec, new_state, trigger, metadata, c, ds)

\* mutant: previous_state is read after transition_to has moved the record
transition_loaded_previous_after(st, hks, rec, new_state, trigger, metadata, c, ds) ==
    IF ~can_transition_to(rec, new_state)
    THEN [result |-> InvalidTransition(rec, new_state,
                         DictGet(VALID_TRANSITIONS, rec.state, <<>>)),
          saves |-> <<>>, hook_calls |-> <<>>, raised |-> None, clock |-> c]
    ELSE With(transition_to(rec, new_state, trigger, metadata, c, ds),
         LAMBDA r :
            [result |-> TransitionResult(TRUE, Some(r.self), None,
                                         Some(r.self.state), Some(new_state)),
             saves |-> <<r.self>>,
             hook_calls |-> run_hooks(hks, 1, r.self, r.self.state, new_state,
                                      trigger),
             raised |-> None, clock |-> r.clock])

\* mutant: a hook's Exception undoes the transition and fails the call
transition_loaded_hook_rollback(st, hks, rec, new_state, trigger, metadata, c, ds) ==
    IF ~can_transition_to(rec, new_state)
    THEN [result |-> InvalidTransition(rec, new_state,
                         DictGet(VALID_TRANSITIONS, rec.state, <<>>)),
          saves |-> <<>>, hook_calls |-> <<>>, raised |-> None, clock |-> c]
    ELSE With(Performed(hks, rec, new_state, trigger, metadata, c, ds),
         LAMBDA done :
            IF \E k \in 1..Len(done.hook_calls) : done.hook_calls[k].raised
            THEN [done EXCEPT
                     !.result = TransitionResult(FALSE, Some(rec),
                                    Some(<<"Hook error">>), Some(rec.state), None),
                     !.saves = Append(@, rec)]
            ELSE done)

\* mutant: no can_transition_to check, the record is moved and saved
transition_loaded_forced(st, hks, rec, new_state, trigger, metadata, c, ds) ==
    With(transition_to_unchecked(rec, new_state, trigger, metadata, c, ds),
    LAMBDA r :
        [result |-> TransitionResult(TRUE, Some(r.self), None,
                                     Some(rec.state), Some(new_state)),
         saves |-> <<r.self>>,
         hook_calls |-> run_hooks(hks, 1, r.self, rec.state, new_state, trigger),
         raised |-> None, clock |-> r.clock])

\* the part of LoopService.transition after the record was found: rec is the
\* loaded record
transition_loaded(st, hks, rec, new_state, trigger, metadata, c, ds) ==
    LET previous_state == rec.state
    IN  IF ~can_transition_to(rec, new_state)
        THEN LET allowed == DictGet(VALID_TRANSITIONS, previous_state, <<>>)
                 allowed_str ==
                     IF Len(allowed) > 0
                     THEN Join(", ", [i \in 1..Len(allowed) |-> value(allowed[i])])
                     ELSE <<"none (terminal)">>
             IN  [result |-> TransitionResult(FALSE, Some(rec),
                                Some(<<"Invalid transition: ", value(previous_state),
                                       " → ", value(new_state), ". Allowed from ",
                                       value(previous_state), ": ">> \o allowed_str),
                                Some(previous_state), None),
                  saves |-> <<>>, hook_calls |-> <<>>, raised |-> None, clock |-> c]
        ELSE With(transition_to(rec, new_state, trigger, metadata, c, ds),
             LAMBDA r :
                IF ~r.result
                THEN [result |-> TransitionResult(FALSE, Some(r.self),
                                    Some(<<"Transition failed unexpectedly">>),
                                    Some(previous_state), None),
                      saves |-> <<>>, hook_calls |-> <<>>, raised |-> None,
                      clock |-> r.clock]
                ELSE [result |-> TransitionResult(TRUE, Some(r.self), None,
                                    Some(previous_state), Some(new_state)),
                      saves |-> <<r.self>>,
                      hook_calls |-> run_hooks(hks, 1, r.self, previous_state,
                                               new_state, trigger),
                      raised |-> None, clock |-> r.clock])

\* mutant: no `record is None` check, so record.state raises AttributeError
transition_no_none_check(st, hks, record_id, new_state, trigger, metadata, c, ds) ==
    With(get(st, record_id),
    LAMBDA loaded :
        IF loaded = None
        THEN [result |-> TransitionResult(FALSE, None, None, None, None),
              saves |-> <<>>, hook_calls |-> <<>>,
              raised |-> Some("AttributeError"), clock |-> c]
        ELSE transition_loaded(st, hks, loaded[1], new_state, trigger, metadata,
                               c, ds))

\* LoopService.transition with the repository at st, the hooks hks and the
\* clock at c.  Gives the TransitionResult returned, the records handed to
\* repository.save in order, the hook calls made in order, the exception that
\* left the call (None: it returned), and the clock.
transition(st, hks, record_id, new_state, trigger, metadata, c, ds) ==
    With(get(st, record_id),
    LAMBDA loaded :
        IF loaded = None
        THEN [result |-> TransitionResult(FALSE, None,
                            Some(<<"Record not found: ", record_id>>), None, None),
              saves |-> <<>>, hook_calls |-> <<>>, raised |-> None, clock |-> c]
        ELSE transition_loaded(st, hks, loaded[1], new_state, trigger, metadata,
                               c, ds))

\* mutant: the record is built and returned, not saved
create_unsaved(st, id, ref, ref_number, repo, auto_merge, labels, c, ds) ==
    With(create_record(id, ref, ref_number, repo, auto_merge, labels, c, ds),
    LAMBDA made :
        [result |-> made.self, saves |-> <<>>, raised |-> None,
         clock |-> made.clock])

\* LoopService.create, the generated record id given
create(st, id, ref, ref_number, repo, auto_merge, labels, c, ds) ==
    With(create_record(id, ref, ref_number, repo, auto_merge, labels, c, ds),
    LAMBDA made :
        [result |-> made.self, saves |-> <<made.self>>, raised |-> None,
         clock |-> made.clock])

\* LoopService.add_hook
add_hook(hks, hook) == Append(hks, hook)

(***************************************************************************)
(* LoopService.transition taken one repository access or hook call at a    *)
(* time, as a caller thread runs it.  A frame holds the caller's position  *)
(* (pc), the arguments, the locals `record` and `previous_state`, the      *)
(* position i of the hook loop, the hook calls and how many save calls it  *)
(* made, and what came out: the TransitionResult returned or the exception *)
(* that left the call.                                                     *)
(***************************************************************************)
Frame(pc, args, rec, previous_state, i, called, saves, result, raised) ==
    [pc |-> pc, args |-> args, rec |-> rec, previous_state |-> previous_state,
     i |-> i, called |-> called, saves |-> saves, result |-> result,
     raised |-> raised]

\* mutant: an optimistic lock, the write is refused unless the stored history
\* is the one the record was loaded with
save_or_raise_versioned(st, rec, fate) ==
    IF /\ fate = "saved"
       /\ StoreGet(st, rec.record_id) # None
       /\ Len(StoreGet(st, rec.record_id)[1].transitions) # Len(rec.transitions) - 1
    THEN [raised |-> Some("ConditionalCheckFailedException"), store |-> st]
    ELSE CASE fate = "saved" ->
                 [raised |-> None, store |-> save(st, rec).store]
           [] fate = "ClientError" ->
                 [raised |-> Some("ClientError"), store |-> st]
           [] fate = "ReadTimeoutError" ->
                 [raised |-> Some("ReadTimeoutError"), store |-> save(st, rec).store]

\* a repository.save that may fail, as DynamoDBRepository.save does: put_item
\* returns, or raises a ClientError (re-raised after logging; the request was
\* refused and nothing was written), or the response is lost after the item
\* was written and botocore's ReadTimeoutError passes through
save_or_raise(st, rec, fate) ==
    CASE fate = "saved" ->
            [raised |-> None, store |-> save(st, rec).store]
      [] fate = "ClientError" ->
            [raised |-> Some("ClientError"), store |-> st]
      [] fate = "ReadTimeoutError" ->
            [raised |-> Some("ReadTimeoutError"), store |-> save(st, rec).store]

\* from the repository.get to the in-memory transition_to: the call returns a
\* failure, or goes on to save the record it loaded and moved
begin_call(st, args, c, ds) ==
    With(get(st, args.record_id),
    LAMBDA loaded :
        IF loaded = None
        THEN Frame("idle", args, None, None, 0, <<>>, 0,
                   Some(TransitionResult(FALSE, None,
                            Some(<<"Record not found: ", args.record_id>>),
                            None, None)),
                   None)
        ELSE IF ~can_transition_to(loaded[1], args.new_state)
        THEN Frame("idle", args, loaded, Some(loaded[1].state), 0, <<>>, 0,
                   Some(InvalidTransition(loaded[1], args.new_state,
                            DictGet(VALID_TRANSITIONS, loaded[1].state, <<>>))),
                   None)
        ELSE With(transition_to(loaded[1], args.new_state, args.trigger,
                                args.metadata, c, ds),
             LAMBDA r :
                IF ~r.result
                THEN Frame("idle", args, Some(r.self), Some(loaded[1].state),
                           0, <<>>, 0,
                           Some(TransitionResult(FALSE, Some(r.self),
                                    Some(<<"Transition failed unexpectedly">>),
                                    Some(loaded[1].state), None)),
                           None)
                ELSE Frame("save", args, Some(r.self), Some(loaded[1].state),
                           0, <<>>, 0, None, None)))

\* mutant: an exception of save is suppressed and the hooks run
after_save_suppressed(frame, out) ==
    [frame EXCEPT !.pc = "hooks", !.saves = @ + 1, !.i = 1]

\* self._repository.save(record) has been called and did `out`: an exception
\* leaves the call as it is, otherwise the hook loop starts
after_save(frame, out) ==
    IF out.raised # None
    THEN [frame EXCEPT !.pc = "idle", !.saves = @ + 1, !.raised = out.raised]
    ELSE [frame EXCEPT !.pc = "hooks", !.saves = @ + 1, !.i = 1]

\* mutant: an Exception raised by a hook ends the loop
hook_step_break(frame, hks) ==
    [frame EXCEPT
        !.called = Append(@, [hook |-> frame.i, record |-> frame.rec[1],
                              previous_state |-> frame.previous_state[1],
                              new_state |-> frame.args.new_state,
                              trigger |-> frame.args.trigger,
                              raised |-> (hks[frame.i] = "raises")]),
        !.i = IF hks[frame.i] = "raises" THEN Len(hks) + 1 ELSE @ + 1]

\* one turn of the hook loop: hks[frame.i] is called, an Exception it raises
\* is caught and logged
hook_step(frame, hks) ==
    [frame EXCEPT
        !.called = Append(@, [hook |-> frame.i, record |-> frame.rec[1],
                              previous_state |-> frame.previous_state[1],
                              new_state |-> frame.args.new_state,
                              trigger |-> frame.args.trigger,
                              raised |-> (hks[frame.i] = "raises")]),
        !.i = @ + 1]

\* the loop is over: the success result is returned
finish(frame) ==
    [frame EXCEPT
        !.pc = "idle",
        !.result = Some(TransitionResult(TRUE, frame.rec, None,
                                         frame.previous_state,
                                         Some(frame.args.new_state)))]

(***************************************************************************)
(* Inputs.                                                                 *)
(***************************************************************************)
\* the <<trigger, metadata>> pairs a transition to new_state is requested with
Payloads(new_state) ==
    IF new_state \in {"TASK_QUEUED", "CLOSED"}
    THEN {<<"t", None>>, <<"worker.picked_up", Some([worker_id |-> Str("w-123")])>>}
    ELSE {<<"t", None>>}
\* the advances of the clock before the (up to three) _now() calls of one call
Advances == {<<0, 0, 0>>, <<1, 0, 0>>, <<0, 1, 0>>, <<0, 0, 1>>}
\* the argument lists create_record is called with:
\* <<ref, ref_number, repo, auto_merge, labels>>
CreateArgs ==
    {<<"issue-1", None, None, FALSE, None>>,
     <<"JIRA-123", Some(123), Some("org/repo"), TRUE, Some([team |-> "platform"])>>}

\* the record id LoopRecord's default factory generates: "loop-" and eight hex
\* digits of a uuid4, here the digits of how many ids were generated before
RecordId(n) == "loop-" \o ToString(n)
\* the ids records are asked for by: each is unknown to the repository until
\* LoopService.create generates it, and again once it is deleted
AskedIds == {RecordId(n) : n \in 1..MaxRecords}
\* what a registered hook does when it is called
HookKinds == {"returns", "raises"}
\* the clock as the LoopService runs see it: it stands still, every timestamp is
\* taken within tick 0 (Spec is where time passes)
SvcAdvances == {<<0, 0, 0>>}

\* SpecRepo: the targets asked for, the <<trigger, metadata>> pairs they are
\* asked with, the ids, and the states and limits list_by_state is called with
RepoTargets == {"TASK_QUEUED", "PR_CREATED"}
RepoPayloads(new_state) ==
    IF new_state = "TASK_QUEUED"
    THEN {<<"t", None>>, <<"push", Some([files |-> PyTuple(<<"a.py", "b.py">>)])>>}
    ELSE {<<"t", None>>}
RepoIds == {RecordId(n) : n \in 1..MaxRepoRecords}
ListStates == {"issue_created", "task_queued", "pr_created", "closed"}
Limits == {-1, 0, 1, 100}

\* SpecRace: the ids create generates and the callers ask for
RaceIds == {RecordId(1), RecordId(2)}

NoCall == [op |-> "none"]
NoRecord == None
\* no caller has called LoopService.transition yet
NoCalls == <<>>
\* the threads that call LoopService.transition on one service; each passes
\* its own name as the trigger
Callers == {"a", "b"}
\* the targets the callers ask for
RunTargets == {"TASK_QUEUED", "PR_CREATED", "CLOSED"}
\* what becomes of a repository.save
SaveFates == {"saved", "ClientError", "ReadTimeoutError"}
\* the hooks the service is constructed with: `hooks or []`
CtorHooks == {None, Some(<<"raises">>)}
\* a caller that has not called yet
NotCalled ==
    Frame("idle", [record_id |-> "", new_state |-> "", trigger |-> "",
                   metadata |-> None],
          None, None, 0, <<>>, 0, None, None)

(***************************************************************************)
(* Spec: one record made by create_record and driven directly.             *)
(***************************************************************************)
Init ==
    /\ \E a \in CreateArgs, ds \in Advances :
       \E made \in {create_record(RecordId(1), a[1], a[2], a[3], a[4], a[5], 0, ds)} :
              /\ made.clock <= MaxClock
              /\ record = made.self
              /\ clock = made.clock
    /\ ret = [op |-> "create_record", new_state |-> "ISSUE_CREATED", result |-> TRUE]
    /\ store = <<>>
    /\ hooks = <<>>
    /\ nextId = 2
    /\ svc = NoCall
    /\ calls = NoCalls

CallCanTransitionTo ==
    /\ \E t \in LoopState :
          ret' = [op |-> "can_transition_to", new_state |-> t,
                  result |-> can_transition_to(record, t)]
    /\ UNCHANGED <<record, clock, store, hooks, nextId, svc, calls>>

CallTransitionTo ==
    /\ \E t \in LoopState, ds \in Advances :
       \E p \in Payloads(t) :
       \E r \in {transition_to(record, t, p[1], p[2], clock, ds)} :
              /\ r.result => Len(record.transitions) < MaxHist
              /\ r.clock <= MaxClock
              /\ record' = r.self
              /\ clock' = r.clock
              /\ ret' = [op |-> "transition_to", new_state |-> t, result |-> r.result]
    /\ UNCHANGED <<store, hooks, nextId, svc, calls>>

Next == CallCanTransitionTo \/ CallTransitionTo

Spec == Init /\ [][Next]_vars

(***************************************************************************)
(* SpecSvc: a LoopService over a MemoryRepository, one call at a time.     *)
(***************************************************************************)
\* the history entries the repository holds in all
RECURSIVE StoreHist(_)
StoreHist(st) ==
    IF Len(st) = 0 THEN 0 ELSE Len(st[1][2].transitions) + StoreHist(Tail(st))

SvcInit ==
    /\ record = NoRecord
    /\ ret = NoCall
    /\ clock = 0
    /\ store = <<>>
    /\ hooks = <<>>
    /\ nextId = 1
    /\ svc = NoCall
    /\ calls = NoCalls

SvcCreate ==
    /\ nextId <= MaxRecords
    /\ StoreHist(store) < MaxStoreHist
    /\ \E a \in CreateArgs, ds \in SvcAdvances :
       \E r \in {create(store, RecordId(nextId), a[1], a[2], a[3], a[4], a[5],
                       clock, ds)} :
              /\ r.clock <= MaxClock
              /\ store' = SaveAll(store, r.saves)
              /\ clock' = r.clock
              /\ svc' = [op |-> "create", args |-> a, result |-> r.result,
                         saves |-> r.saves, raised |-> r.raised]
    /\ nextId' = nextId + 1
    /\ UNCHANGED <<record, ret, hooks, calls>>

SvcTransition ==
    /\ \E id \in AskedIds, t \in LoopState, ds \in SvcAdvances :
       \E p \in Payloads(t) :
       \E r \in {transition(store, hooks, id, t, p[1], p[2], clock, ds)} :
              /\ r.clock <= MaxClock
              /\ r.result.success => StoreHist(store) < MaxStoreHist
              /\ store' = SaveAll(store, r.saves)
              /\ clock' = r.clock
              /\ svc' = [op |-> "transition", record_id |-> id, new_state |-> t,
                         trigger |-> p[1], metadata |-> p[2],
                         result |-> r.result, saves |-> r.saves,
                         hook_calls |-> r.hook_calls, raised |-> r.raised]
    /\ UNCHANGED <<record, ret, hooks, nextId, calls>>

SvcAddHook ==
    /\ Len(hooks) < MaxHooks
    /\ \E h \in HookKinds : hooks' = add_hook(hooks, h)
    /\ svc' = [op |-> "add_hook"]
    /\ UNCHANGED <<record, ret, clock, store, nextId, calls>>

RepoDelete ==
    /\ \E id \in AskedIds :
       \E r \in {delete(store, id)} :
              /\ store' = r.store
              /\ svc' = [op |-> "delete", record_id |-> id, result |-> r.result]
    /\ UNCHANGED <<record, ret, clock, hooks, nextId, calls>>

SvcNext == SvcCreate \/ SvcTransition \/ SvcAddHook \/ RepoDelete

SpecSvc == SvcInit /\ [][SvcNext]_vars

(***************************************************************************)
(* SpecDyn: a LoopService over a DynamoDBRepository, one call at a time.   *)
(***************************************************************************)
DynDelete ==
    /\ \E id \in AskedIds :
       \E r \in {dynamodb_delete(store, id)} :
              /\ store' = r.store
              /\ svc' = [op |-> "delete", record_id |-> id, result |-> r.result]
    /\ UNCHANGED <<record, ret, clock, hooks, nextId, calls>>

DynNext == SvcCreate \/ SvcTransition \/ DynDelete

SpecDyn == SvcInit /\ [][DynNext]_vars

(***************************************************************************)
(* SpecRepo: a MemoryRepository that holds several records, filled and     *)
(* changed through a LoopService without hooks, and listed by state.       *)
(***************************************************************************)
RepoCreate ==
    /\ nextId <= MaxRepoRecords
    /\ \E a \in {x \in CreateArgs : x[5] = None}, ds \in SvcAdvances :  \* no labels
       \E r \in {create(store, RecordId(nextId), a[1], a[2], a[3], a[4], a[5],
                       clock, ds)} :
              /\ store' = SaveAll(store, r.saves)
              /\ svc' = [op |-> "create", args |-> a, result |-> r.result,
                         saves |-> r.saves, raised |-> r.raised]
    /\ nextId' = nextId + 1
    /\ UNCHANGED <<record, ret, clock, hooks, calls>>

RepoTransition ==
    /\ \E id \in RepoIds, t \in RepoTargets, ds \in SvcAdvances :
       \E p \in RepoPayloads(t) :
       \E r \in {transition(store, hooks, id, t, p[1], p[2], clock, ds)} :
              /\ store' = SaveAll(store, r.saves)
              /\ svc' = [op |-> "transition", record_id |-> id, new_state |-> t,
                         trigger |-> p[1], metadata |-> p[2],
                         result |-> r.result, saves |-> r.saves,
                         hook_calls |-> r.hook_calls, raised |-> r.raised]
    /\ UNCHANGED <<record, ret, clock, hooks, nextId, calls>>

RepoRemove ==
    /\ \E id \in RepoIds :
       \E r \in {delete(store, id)} :
              /\ store' = r.store
              /\ svc' = [op |-> "delete", record_id |-> id, result |-> r.result]
    /\ UNCHANGED <<record, ret, clock, hooks, nextId, calls>>

RepoListByState ==
    /\ \E state \in ListStates, limit \in Limits :
          svc' = [op |-> "list_by_state", state |-> state, limit |-> limit,
                  result |-> list_by_state(store, state, limit)]
    /\ UNCHANGED <<record, ret, clock, store, hooks, nextId, calls>>

RepoNext == RepoCreate \/ RepoTransition \/ RepoRemove \/ RepoListByState

SpecRepo == SvcInit /\ [][RepoNext]_vars

(***************************************************************************)
(* SpecRun: the callers' LoopService.transition calls on one service and   *)
(* one stored record, interleaved at the repository accesses and the hook  *)
(* calls; the repository's save may fail.                                  *)
(***************************************************************************)
RunInit ==
    /\ record = NoRecord
    /\ ret = NoCall
    /\ clock = 0
    /\ \E a \in CreateArgs :
          store = SaveAll(<<>>, create(<<>>, RecordId(1), a[1], a[2], a[3], a[4],
                                       a[5], 0, <<0, 0, 0>>).saves)
    /\ \E given \in CtorHooks : hooks = IF given = None THEN <<>> ELSE given[1]
    /\ nextId = 2
    /\ svc = NoCall
    /\ calls = [c \in Callers |-> NotCalled]

RunBegin(c) ==
    /\ calls[c].pc = "idle"
    /\ \E t \in RunTargets, ds \in SvcAdvances :
          calls' = [calls EXCEPT ![c] =
                       begin_call(store, [record_id |-> RecordId(1),
                                          new_state |-> t, trigger |-> c,
                                          metadata |-> None],
                                  clock, ds)]
    /\ UNCHANGED <<record, ret, clock, store, hooks, nextId, svc>>

RunSave(c) ==
    /\ calls[c].pc = "save"
    /\ \E fate \in SaveFates :
       \E out \in {save_or_raise(store, calls[c].rec[1], fate)} :
              /\ store' = out.store
              /\ calls' = [calls EXCEPT ![c] = after_save(@, out)]
    /\ UNCHANGED <<record, ret, clock, hooks, nextId, svc>>

RunHook(c) ==
    /\ calls[c].pc = "hooks"
    /\ calls[c].i <= Len(hooks)
    /\ calls' = [calls EXCEPT ![c] = hook_step(@, hooks)]
    /\ UNCHANGED <<record, ret, clock, store, hooks, nextId, svc>>

RunReturn(c) ==
    /\ calls[c].pc = "hooks"
    /\ calls[c].i > Len(hooks)
    /\ calls' = [calls EXCEPT ![c] = finish(@)]
    /\ UNCHANGED <<record, ret, clock, store, hooks, nextId, svc>>

RunAddHook ==
    /\ Len(hooks) < MaxRunHooks
    /\ \E h \in HookKinds : hooks' = add_hook(hooks, h)
    /\ UNCHANGED <<record, ret, clock, store, nextId, svc, calls>>

RunNext ==
    \/ \E c \in Callers : RunBegin(c)
    \/ \E c \in Callers : RunSave(c)
    \/ \E c \in Callers : RunHook(c)
    \/ \E c \in Callers : RunReturn(c)
    \/ RunAddHook

SpecRun == RunInit /\ [][RunNext]_vars

(***************************************************************************)
(* SpecRace: the callers' LoopService.create and LoopService.transition    *)
(* calls on one service without hooks over a MemoryRepository, each        *)
(* repository.get and each repository.save one step.  A call that is over  *)
(* leaves nothing behind but what it saved.                                *)
(***************************************************************************)
RaceInit ==
    /\ record = NoRecord
    /\ ret = NoCall
    /\ clock = 0
    /\ store = <<>>
    /\ hooks = <<>>
    /\ nextId = 1
    /\ svc = NoCall
    /\ calls = [c \in Callers |-> NotCalled]

\* create: the record is built and saved
RaceCreate(c) ==
    /\ calls[c].pc = "idle"
    /\ RecordId(nextId) \in RaceIds
    /\ \E a \in {x \in CreateArgs : x[5] = None}, ds \in SvcAdvances :  \* no labels
       \E r \in {create(store, RecordId(nextId), a[1], a[2], a[3], a[4], a[5],
                       clock, ds)} :
              store' = SaveAll(store, r.saves)
    /\ nextId' = nextId + 1
    /\ UNCHANGED <<record, ret, clock, hooks, svc, calls>>

\* transition, up to the save: a call that fails returns at once
RaceBegin(c) ==
    /\ calls[c].pc = "idle"
    /\ \E id \in RaceIds, t \in LoopState, ds \in SvcAdvances :
       \E frame \in {begin_call(store, [record_id |-> id, new_state |-> t,
                                        trigger |-> "t", metadata |-> None],
                                clock, ds)} :
              /\ frame.pc = "save"
                    => Len(frame.rec[1].transitions) <= MaxRaceHist
              /\ calls' = IF frame.pc = "save"
                          THEN [calls EXCEPT ![c] = frame]
                          ELSE calls
    /\ UNCHANGED <<record, ret, clock, store, hooks, nextId, svc>>

\* transition, the save; no hook is registered and the call returns
RaceSave(c) ==
    /\ calls[c].pc = "save"
    /\ store' = save(store, calls[c].rec[1]).store
    /\ calls' = [calls EXCEPT ![c] = NotCalled]
    /\ UNCHANGED <<record, ret, clock, hooks, nextId, svc>>

RaceNext ==
    \/ \E c \in Callers : RaceCreate(c)
    \/ \E c \in Callers : RaceBegin(c)
    \/ \E c \in Callers : RaceSave(c)

SpecRace == RaceInit /\ [][RaceNext]_vars

(***************************************************************************)
(* Properties of the record (Spec).                                        *)
(***************************************************************************)
\* the targets the table allows from state s
Targets(s) == {VALID_TRANSITIONS[s][i] : i \in 1..Len(VALID_TRANSITIONS[s])}

\* C1: every history entry after the initial 'created' one is a move the table
\* allows: its to_state is among the targets of its from_state.
C1_HistoryLegal ==
    /\ record.transitions[1].from_state = None
    /\ \A i \in 2..Len(record.transitions) :
          LET e == record.transitions[i]
          IN  /\ e.from_state # None
              /\ \E s, t \in LoopState :
                    /\ value(s) = e.from_state[1]
                    /\ value(t) = e.to_state
                    /\ t \in Targets(s)

\* a record with three entries on which an illegal target was just refused
C1_Witness ==
    /\ Len(record.transitions) >= 3
    /\ ret.op = "transition_to"
    /\ ret.result = FALSE

\* C2: in every reachable state record.state is the to_state of the last
\* history entry.
C2_StateIsLastToState ==
    /\ Len(record.transitions) >= 1
    /\ value(record.state) = Last(record.transitions).to_state

\* a successful transition has just moved the record on
C2_Witness ==
    /\ ret.op = "transition_to"
    /\ ret.result = TRUE
    /\ record.state = "CI_FAILED"

\* C3: a transition_to whose target the table does not allow from the current
\* state returns false and leaves the whole record as it was.
C3_RejectedLeavesRecord ==
    [][(ret'.op = "transition_to" /\ ret'.new_state \notin Targets(record.state))
          => (ret'.result = FALSE /\ record' = record /\ clock' = clock)]_vars

\* a refused transition_to on a record that has moved and has been closed
\* later than it was last updated
C3_Witness ==
    /\ ret.op = "transition_to"
    /\ ret.result = FALSE
    /\ Len(record.transitions) >= 2
    /\ clock > record.updated_at

\* C4: can_transition_to(t) on a record in state s is true exactly when t is
\* in VALID_TRANSITIONS[s]; every state is a key of the table; the call
\* leaves the record as it was.
C4_CanTransitionIffInTable ==
    [][/\ \A s \in LoopState : s \in DOMAIN VALID_TRANSITIONS
       /\ ret'.op = "can_transition_to"
             => /\ ret'.result = (ret'.new_state \in Targets(record.state))
                /\ record' = record]_vars

\* can_transition_to answered true for awaiting_review -> ci_pending
C4_Witness ==
    /\ ret.op = "can_transition_to"
    /\ record.state = "AWAITING_REVIEW"
    /\ ret.new_state = "CI_PENDING"
    /\ ret.result = TRUE

\* C6: no table entry lists issue_created, and a record that has made a
\* transition is never in state issue_created again.
C6_IssueCreatedEntryOnly ==
    /\ \A s \in LoopState : "ISSUE_CREATED" \notin Targets(s)
    /\ Len(record.transitions) >= 2 => record.state # "ISSUE_CREATED"

\* a record that has moved on was asked to go back to issue_created
C6_Witness ==
    /\ Len(record.transitions) >= 2
    /\ ret.op = "transition_to"
    /\ ret.new_state = "ISSUE_CREATED"
    /\ ret.result = FALSE

\* C7: closed_at is set exactly when the record is in state closed (which it
\* never leaves), and once set it is never changed.
C7_ClosedAtIffClosed ==
    [][/\ (record.closed_at # None) <=> (record.state = "CLOSED")
       /\ (record'.closed_at # None) <=> (record'.state = "CLOSED")
       /\ record.closed_at # None => record'.closed_at = record.closed_at]_vars

\* a closed record, with closed_at set, on which a later call was made
C7_Witness ==
    /\ record.state = "CLOSED"
    /\ record.closed_at # None
    /\ ret.op = "transition_to"
    /\ ret.result = FALSE

\* C17: the record starts with one history entry; a transition_to that
\* returns true appends exactly one entry at the end, from the state before
\* the call to the target, and leaves the earlier entries as they were; any
\* other call leaves the history as it is (so k successes give 1 + k
\* entries); and each entry's from_state is the to_state of the entry before.
C17_AppendOnly ==
    /\ Len(record.transitions) = 1
    /\ [][/\ IF ret'.op = "transition_to" /\ ret'.result
             THEN /\ Len(record'.transitions) = Len(record.transitions) + 1
                  /\ SubSeq(record'.transitions, 1, Len(record.transitions))
                        = record.transitions
                  /\ Last(record'.transitions).from_state
                        = Some(value(record.state))
                  /\ Last(record'.transitions).to_state = value(ret'.new_state)
             ELSE record'.transitions = record.transitions
          /\ \A i \in 2..Len(record'.transitions) :
                record'.transitions[i].from_state
                   = Some(record'.transitions[i - 1].to_state)]_vars

\* the happy path was walked: seven entries, the record closed
C17_Witness ==
    /\ [i \in 1..Len(record.transitions) |-> record.transitions[i].to_state]
          = <<"issue_created", "task_queued", "pr_created", "ci_pending",
              "ci_passed", "merged", "closed">>
    /\ Len(record.transitions) = 7
    /\ record.state = "CLOSED"
    /\ record.closed_at # None

\* the table as a graph: its edges, the two edges that lead back, the states
\* an edge leads to from one of S, what is reached from S in up to n steps,
\* what is reached from s in one step or more, and the states on a cycle
Edges == {e \in LoopState \X LoopState : e[2] \in Targets(e[1])}
BackEdges == {<<"CI_FAILED", "CI_PENDING">>, <<"AWAITING_REVIEW", "CI_PENDING">>}
Successors(E, S) == {e[2] : e \in {x \in E : x[1] \in S}}
RECURSIVE ReachN(_, _, _)
ReachN(E, S, n) ==
    IF n = 0 THEN S ELSE ReachN(E, S \cup Successors(E, S), n - 1)
ReachPlus(E, s) == ReachN(E, Successors(E, {s}), Cardinality(LoopState))
OnCycle(E) == {s \in LoopState : s \in ReachPlus(E, s)}
\* the states the claim says a record can be in more than once
Repeatable == {"CI_PENDING", "CI_PASSED", "CI_FAILED", "AWAITING_REVIEW"}
\* how many entries of the history of rec lead to state s
Visits(rec, s) ==
    Cardinality({i \in 1..Len(rec.transitions) :
                    rec.transitions[i].to_state = value(s)})

\* the edges of the retry path and of the two review paths
RetryAndReviewEdges ==
    {<<"CI_PENDING", "CI_FAILED">>, <<"CI_FAILED", "CI_PENDING">>,
     <<"CI_PASSED", "AWAITING_REVIEW">>, <<"AWAITING_REVIEW", "APPROVED">>,
     <<"APPROVED", "MERGED">>, <<"AWAITING_REVIEW", "CI_PENDING">>}
\* what C21 says of the table itself
GraphShape ==
    /\ BackEdges \subseteq Edges
    /\ OnCycle(Edges \ BackEdges) = {}
    /\ OnCycle(Edges) = Repeatable
    /\ \A s \in LoopState : "CLOSED" \in ReachN(Edges, {s}, Cardinality(LoopState))
    /\ RetryAndReviewEdges \subseteq Edges

\* C21: the table has cycles only through ci_failed -> ci_pending and
\* awaiting_review -> ci_pending: without these two edges no state is on a
\* cycle; with them the states on a cycle are ci_pending, ci_passed, ci_failed
\* and awaiting_review, and a record's history enters no other state twice;
\* the retry path and the review paths are accepted by can_transition_to on
\* a record in the state they leave; and closed is reached from every state.
C21_CyclesOnlyBackEdges ==
    /\ GraphShape
    /\ \A s \in LoopState \ Repeatable : Visits(record, s) <= 1
    /\ \A e \in RetryAndReviewEdges :
          record.state = e[1] => can_transition_to(record, e[2])

\* the retry path was walked: the record is in ci_pending for the second time
C21_Witness ==
    /\ ret.op = "transition_to"
    /\ ret.result
    /\ [i \in 1..Len(record.transitions) |-> record.transitions[i].to_state]
          = <<"issue_created", "task_queued", "pr_created", "ci_pending",
              "ci_failed", "ci_pending">>
    /\ Visits(record, "CI_PENDING") = 2

\* C23: a transition_to that returns true leaves record_id, ref, ref_number,
\* repo, pr_url, pr_number, auto_merge, ci_status, labels and created_at as
\* they were, and closed_at too unless the target is closed; it sets
\* updated_at to the time read during the call.  A transition_to that
\* returns false leaves updated_at, and every other field, as it was.
C23_Frame ==
    [][ret'.op = "transition_to"
          => IF ret'.result
             THEN /\ record'.record_id = record.record_id
                  /\ record'.ref = record.ref
                  /\ record'.ref_number = record.ref_number
                  /\ record'.repo = record.repo
                  /\ record'.pr_url = record.pr_url
                  /\ record'.pr_number = record.pr_number
                  /\ record'.auto_merge = record.auto_merge
                  /\ record'.ci_status = record.ci_status
                  /\ record'.labels = record.labels
                  /\ record'.created_at = record.created_at
                  /\ ret'.new_state # "CLOSED"
                        => record'.closed_at = record.closed_at
                  /\ record'.updated_at \in clock..clock'
             ELSE /\ record'.updated_at = record.updated_at
                  /\ record' = record]_vars

\* a transition succeeded a tick after the record was created: updated_at is
\* later than created_at, the labels and the ref are those it was created with
C23_Witness ==
    /\ ret.op = "transition_to"
    /\ ret.result
    /\ record.created_at = 0
    /\ record.updated_at = 1
    /\ record.labels = [team |-> "platform"]
    /\ record.ref = "JIRA-123"
    /\ record.state = "TASK_QUEUED"

(***************************************************************************)
(* Properties of the service (SpecSvc).                                    *)
(***************************************************************************)
\* the record stored under id, as repository.get gives it
Stored(st, id) == from_dict(StoreGet(st, id)[1])

\* the triggers of the history entries of rec, in order
Triggers(rec) == [k \in 1..Len(rec.transitions) |-> rec.transitions[k].trigger]

\* C5: closed is terminal.  On a stored record in state closed every
\* transition_to, for every target, returns false and changes nothing; every
\* LoopService.transition on its id fails; and the stored record stays as it
\* is until it is deleted.
C5_ClosedIsTerminal ==
    [][\A i \in 1..Len(store) :
          store[i][2].state = "closed" =>
             \A id \in {store[i][1]}, r \in {from_dict(store[i][2])} :
                 /\ r.state = "CLOSED"
                 /\ \A t \in LoopState, ds \in Advances : \A p \in Payloads(t) :
                       transition_to(r, t, p[1], p[2], clock, ds)
                          = [result |-> FALSE, self |-> r, clock |-> clock]
                 /\ (svc'.op = "transition" /\ svc'.record_id = id)
                       => (~svc'.result.success /\ svc'.saves = <<>>)
                 /\ StoreGet(store', id) \in {None, Some(store[i][2])}]_vars

\* a transition of a closed record to closed itself was asked for and failed
C5_Witness ==
    /\ svc.op = "transition"
    /\ svc.new_state = "CLOSED"
    /\ svc.result.previous_state = Some("CLOSED")
    /\ ~svc.result.success

\* C8: a LoopService.transition that returns success has called save exactly
\* once; one that returns a failure has called save not at all, and has
\* called no hook.
C8_SideEffects ==
    [][svc'.op = "transition" =>
          IF svc'.result.success
          THEN /\ Len(svc'.saves) = 1
               /\ store' = save(store, svc'.saves[1]).store
          ELSE /\ Len(svc'.saves) = 0
               /\ Len(svc'.hook_calls) = 0
               /\ store' = store]_vars

\* a successful transition with a hook registered: one save, the hook called
C8_Witness ==
    /\ svc.op = "transition"
    /\ svc.result.success
    /\ Len(svc.saves) = 1
    /\ Len(hooks) >= 1
    /\ Len(svc.hook_calls) = Len(hooks)

\* C9: a LoopService.transition to a target the table does not allow from the
\* stored record's state returns a failure that carries the record as stored,
\* its state as previous_state, no new_state, and a message that starts
\* "Invalid transition" and lists exactly the allowed targets, or
\* "none (terminal)"; the repository is left as it was.
C9_InvalidTransition ==
    [][(svc'.op = "transition" /\ svc'.record_id \in Keys(store))
          => \A cur \in {Stored(store, svc'.record_id)} :
                svc'.new_state \notin Targets(cur.state)
                   => \A res \in {svc'.result}, n \in {Cardinality(Targets(cur.state))} :
                      \A listing \in {SubSeq(res.error[1], 8, Len(res.error[1]))} :
                         /\ svc'.raised = None
                         /\ ~res.success
                         /\ res.record = Some(cur)
                         /\ res.previous_state = Some(cur.state)
                         /\ res.new_state = None
                         /\ res.error[1][1] = "Invalid transition: "
                         /\ IF n = 0
                            THEN listing = <<"none (terminal)">>
                            ELSE /\ Len(listing) = 2 * n - 1
                                 /\ \A k \in 1..Len(listing) :
                                       k % 2 = 0 => listing[k] = ", "
                                 /\ {listing[k] : k \in {j \in 1..Len(listing) : j % 2 = 1}}
                                       = {value(t) : t \in Targets(cur.state)}
                         /\ store' = store]_vars

\* a refused transition of a stored record that has two allowed targets
C9_Witness ==
    /\ svc.op = "transition"
    /\ ~svc.result.success
    /\ svc.result.previous_state = Some("CI_PASSED")
    /\ svc.result.error[1][1] = "Invalid transition: "

\* C10: a LoopService.transition on an id the repository does not hold
\* returns (it does not raise) a failure with a not-found error, no record,
\* no previous and no new state, for every target; nothing is stored.
C10_NotFound ==
    [][(svc'.op = "transition" /\ svc'.record_id \notin Keys(store))
          => /\ svc'.raised = None
             /\ svc'.result = TransitionResult(FALSE, None,
                                  Some(<<"Record not found: ", svc'.record_id>>),
                                  None, None)
             /\ svc'.saves = <<>>
             /\ store' = store]_vars

\* the asked id was created and deleted, and the transition was not found
C10_Witness ==
    /\ svc.op = "transition"
    /\ svc.record_id = RecordId(1)
    /\ nextId > 1
    /\ svc.record_id \notin Keys(store)
    /\ ~svc.result.success
    /\ svc.result.record = None

C13_HookErrorHarmless ==
    [][(/\ svc'.op = "transition"
        /\ \E k \in 1..Len(svc'.hook_calls) : svc'.hook_calls[k].raised)
          => \A ds \in SvcAdvances :
             \A plain \in {transition(store, <<>>, svc'.record_id, svc'.new_state,
                                      svc'.trigger, svc'.metadata, clock, ds)} :
                /\ svc'.raised = None
                /\ svc'.result = plain.result
                /\ svc'.result.success
                /\ svc'.result.error = None
                /\ svc'.result.new_state = Some(svc'.new_state)
                /\ store' = SaveAll(store, plain.saves)
                /\ Stored(store', svc'.record_id).state = svc'.new_state
                /\ Len(Stored(store', svc'.record_id).transitions)
                      = Len(Stored(store, svc'.record_id).transitions) + 1]_vars

\* the only hook raised during a transition to pr_created, which succeeded
C13_Witness ==
    /\ svc.op = "transition"
    /\ hooks = <<"raises">>
    /\ Len(svc.hook_calls) = 1
    /\ svc.hook_calls[1].raised
    /\ svc.result.success
    /\ svc.new_state = "PR_CREATED"
    /\ Stored(store, svc.record_id).state = "PR_CREATED"

\* C16: right after LoopService.create returns, get of the returned record's
\* id gives a record in state issue_created with exactly one history entry
\* (from_state None, to_state issue_created, trigger 'created'), closed_at
\* None, and the ref, repo and labels given, the labels empty when omitted;
\* it is the record create returned.
C16_CreatePersists ==
    [][svc'.op = "create"
          => \A a \in {svc'.args}, got \in {get(store', svc'.result.record_id)} :
                /\ svc'.raised = None
                /\ got # None
                /\ got[1] = svc'.result
                /\ got[1].state = "ISSUE_CREATED"
                /\ Len(got[1].transitions) = 1
                /\ got[1].transitions[1].from_state = None
                /\ got[1].transitions[1].to_state = "issue_created"
                /\ got[1].transitions[1].trigger = "created"
                /\ got[1].closed_at = None
                /\ got[1].ref = a[1]
                /\ got[1].repo = a[3]
                /\ got[1].labels = (IF a[5] = None THEN EmptyDict ELSE a[5][1])
                /\ StoreGet(store', svc'.result.record_id)[1].state
                      = "issue_created"]_vars

\* create was called without repo and labels, and the stored record has none
C16_Witness ==
    /\ svc.op = "create"
    /\ svc.args[5] = None
    /\ svc.args[3] = None
    /\ get(store, svc.result.record_id) # None
    /\ Stored(store, svc.result.record_id).labels = EmptyDict
    /\ Stored(store, svc.result.record_id).ref = "issue-1"

\* C18: repository.delete(id) returns true exactly when a record was stored
\* under id before the call, and get(id) then returns None; when no record
\* was stored under id it returns false and leaves the repository as it was.
C18_DeleteContract ==
    [][svc'.op = "delete"
          => /\ svc'.result = (svc'.record_id \in Keys(store))
             /\ get(store', svc'.record_id) = None
             /\ svc'.record_id \notin Keys(store) => store' = store]_vars

\* C22: no LoopService.transition ends with 'Transition failed unexpectedly':
\* on every record the repository gives, for every target and payload,
\* whenever can_transition_to(target) is true the transition_to(target)
\* that follows on the same record returns true.
C22_FailedUnexpectedlyUnreachable ==
    /\ svc.op = "transition"
          => svc.result.error # Some(<<"Transition failed unexpectedly">>)
    /\ \A i \in 1..Len(store) :
       \A r \in {from_dict(store[i][2])} :
       \A t \in LoopState, ds \in Advances :
       \A p \in Payloads(t) :
          can_transition_to(r, t)
             => transition_to(r, t, p[1], p[2], clock, ds).result

\* the pre-check passed a second time for ci_pending, on the way back from
\* ci_failed, and the transition succeeded
C22_Witness ==
    /\ svc.op = "transition"
    /\ svc.result.success
    /\ svc.result.previous_state = Some("CI_FAILED")
    /\ svc.result.new_state = Some("CI_PENDING")
    /\ svc.result.error = None

\* C24: with LoopService calls one after the other, what the repository
\* holds under an id changes in three ways only.  It appears, by create, in
\* state issue_created with the one 'created' entry.  It is replaced, by a
\* transition, by data whose state is a target the table allows from the
\* state held before and whose history is the history held before with one
\* entry, from the old state to the new, added at its end.  It disappears,
\* by delete.
C24_PersistedPath ==
    [][\A id \in AskedIds :
       \A before \in {StoreGet(store, id)}, after \in {StoreGet(store', id)} :
          /\ (before = None /\ after # None)
                => /\ svc'.op = "create"
                   /\ after[1].state = "issue_created"
                   /\ Len(after[1].transitions) = 1
                   /\ after[1].transitions[1].trigger = "created"
          /\ (before # None /\ after # None /\ after # before)
                => /\ svc'.op = "transition"
                   /\ LoopStateOf(after[1].state)
                         \in Targets(LoopStateOf(before[1].state))
                   /\ Len(after[1].transitions) = Len(before[1].transitions) + 1
                   /\ SubSeq(after[1].transitions, 1, Len(before[1].transitions))
                         = before[1].transitions
                   /\ Last(after[1].transitions).from_state = Some(before[1].state)
                   /\ Last(after[1].transitions).to_state = after[1].state
          /\ (before # None /\ after = None) => svc'.op = "delete"]_vars

\* the stored record went the review path: it is in approved, seven entries
C24_Witness ==
    /\ svc.op = "transition"
    /\ svc.result.success
    /\ svc.record_id \in Keys(store)
    /\ StoreGet(store, svc.record_id)[1].state = "approved"
    /\ Triggers(Stored(store, svc.record_id))
          = <<"created", "t", "t", "t", "t", "t", "t">>

(***************************************************************************)
(* Properties of the repository (SpecRepo).                                *)
(***************************************************************************)
\* what C19 says of save and get apart from the history: after the save of r
\* that took the repository from st to st2, get gives a record with r's id,
\* state, ref, repo and labels; saving r again changes nothing; no id has two
\* records; get of an id that is not stored gives None
SaveIsUpsert(st, st2, r) ==
    /\ st2 = save(st, r).store
    /\ \A got \in {get(st2, r.record_id)} :
          /\ got # None
          /\ got[1].record_id = r.record_id
          /\ got[1].state = r.state
          /\ got[1].ref = r.ref
          /\ got[1].repo = r.repo
          /\ got[1].labels = r.labels
    /\ save(st2, r).store = st2
    /\ Cardinality(Keys(st2)) = Len(st2)
    /\ \A id \in RepoIds \ Keys(st2) : get(st2, id) = None

\* C19 as stated: save is an upsert by record id and lossless; after save(r),
\* get(r.record_id) gives a record equal to r in id, state, ref, repo, labels
\* and history (the same entries in the same order); saving twice is saving
\* once; no id has two records; get of an unknown id gives None.
C19_SaveLossless ==
    [][svc'.op \in {"create", "transition"}
          => \A k \in 1..Len(svc'.saves) :
             \A r \in {svc'.saves[k]} :
                /\ SaveIsUpsert(store, store', r)
                /\ get(store', r.record_id)[1].transitions = r.transitions]_vars

\* C19, amended: as stated, but of the history get gives back the same number
\* of entries in the same order with the same from_state, to_state, trigger
\* and timestamp, and of an entry's metadata the same keys, with the same
\* value where the value is a JSON value; a tuple comes back as the list of
\* its items.
C19_SaveUpsert ==
    [][svc'.op \in {"create", "transition"}
          => \A k \in 1..Len(svc'.saves) :
             \A r \in {svc'.saves[k]} :
                /\ SaveIsUpsert(store, store', r)
                /\ \A h \in {get(store', r.record_id)[1].transitions} :
                      /\ Len(h) = Len(r.transitions)
                      /\ \A i \in 1..Len(h) :
                         \A e \in {r.transitions[i]} :
                            /\ h[i].from_state = e.from_state
                            /\ h[i].to_state = e.to_state
                            /\ h[i].trigger = e.trigger
                            /\ h[i].timestamp = e.timestamp
                            /\ DOMAIN h[i].metadata = DOMAIN e.metadata
                            /\ \A key \in DOMAIN e.metadata :
                                  h[i].metadata[key]
                                     = IF IsTuple(e.metadata[key])
                                       THEN PyList(e.metadata[key][2])
                                       ELSE e.metadata[key]]_vars

\* a transition whose metadata holds a tuple was saved: the record returned
\* holds the tuple, the record get gives holds a list
C19_Witness ==
    /\ svc.op = "transition"
    /\ svc.result.success
    /\ svc.metadata # None
    /\ "files" \in DOMAIN svc.metadata[1]
    /\ Last(svc.result.record[1].transitions).metadata.files
          = PyTuple(<<"a.py", "b.py">>)
    /\ Last(Stored(store, svc.record_id).transitions).metadata.files
          = PyList(<<"a.py", "b.py">>)
    /\ Len(store) = 2

\* the ids of the records the repository holds in state (a value) s
IdsInState(st, s) == {st[i][1] : i \in {j \in 1..Len(st) : st[j][2].state = s}}

\* C20: list_by_state(s, limit) on the MemoryRepository gives only records
\* whose stored state is s, each as get gives it and none twice, and exactly
\* min(limit, number of stored records in state s) of them, none when limit
\* is 0 or negative; so a record that was moved on is listed under its new
\* state and not under its old one; the repository is left as it was.
C20_ListByState ==
    [][svc'.op = "list_by_state"
          => \A res \in {svc'.result}, ids \in {IdsInState(store, svc'.state)} :
                /\ \A k \in 1..Len(res) :
                      /\ value(res[k].state) = svc'.state
                      /\ res[k].record_id \in ids
                      /\ get(store, res[k].record_id) = Some(res[k])
                /\ Cardinality({res[k].record_id : k \in 1..Len(res)}) = Len(res)
                /\ Len(res) = IF svc'.limit <= 0 THEN 0
                              ELSE IF svc'.limit < Cardinality(ids)
                                   THEN svc'.limit
                                   ELSE Cardinality(ids)
                /\ svc'.limit >= Cardinality(ids) /\ svc'.limit > 0
                      => {res[k].record_id : k \in 1..Len(res)} = ids
                /\ store' = store]_vars

\* two records were moved to task_queued and listed with limit 1: one record
\* is returned, and it is in task_queued
C20_Witness ==
    /\ svc.op = "list_by_state"
    /\ svc.state = "task_queued"
    /\ svc.limit = 1
    /\ Cardinality(IdsInState(store, "task_queued")) = 2
    /\ IdsInState(store, "issue_created") = {}
    /\ Len(svc.result) = 1
    /\ svc.result[1].state = "TASK_QUEUED"

(***************************************************************************)
(* Properties of the calls taken step by step (SpecRun).                   *)
(***************************************************************************)
\* C12: a hook is called only by a call that has saved its record (once,
\* without an exception), each call is for the next hook in registration
\* order and is given (record, previous state, new state, trigger); and when
\* a call returns success it has called every hook registered so far, each
\* exactly once, in registration order, whether or not earlier hooks raised.
C12_HooksInOrder ==
    [][\A c \in Callers :
          \A old \in {calls[c]}, new \in {calls'[c]} :
             /\ Len(new.called) > Len(old.called)
                   => /\ old.pc = "hooks"
                      /\ old.saves = 1
                      /\ old.raised = None
                      /\ Len(new.called) = Len(old.called) + 1
                      /\ SubSeq(new.called, 1, Len(old.called)) = old.called
                      /\ Last(new.called)
                            = [hook |-> Len(new.called), record |-> old.rec[1],
                               previous_state |-> old.previous_state[1],
                               new_state |-> old.args.new_state,
                               trigger |-> old.args.trigger,
                               raised |-> (hooks[Len(new.called)] = "raises")]
             /\ (old.pc = "hooks" /\ new.pc = "idle")
                   => /\ new.result # None
                      /\ new.result[1].success
                      /\ [k \in 1..Len(new.called) |-> new.called[k].hook]
                            = [k \in 1..Len(hooks) |-> k]
                      /\ new.called
                            = run_hooks(hooks, 1, new.rec[1], new.previous_state[1],
                                        new.args.new_state, new.args.trigger)]_vars

\* a call returned success after calling a hook that raised and then the hook
\* registered after it
C12_Witness ==
    \E c \in Callers :
       /\ calls[c].pc = "idle"
       /\ calls[c].result # None
       /\ calls[c].result[1].success
       /\ hooks = <<"raises", "returns">>
       /\ Len(calls[c].called) = 2
       /\ calls[c].called[1].raised
       /\ ~calls[c].called[2].raised

\* C14: when repository.save raises during LoopService.transition, the
\* exception the repository raised leaves the call: no result is returned, no
\* hook is or will be called, save was called once and is not called again,
\* and the repository holds what the failed save left (the old data after a
\* ClientError, the written record after a lost response); a call goes on to
\* its hooks only when the save has written its record.
C14_SaveErrorPropagates ==
    [][\A c \in Callers :
          \A old \in {calls[c]}, new \in {calls'[c]} :
             /\ (old.pc = "save" /\ new # old)
                   => /\ new.saves = 1
                      /\ new.pc \in {"hooks", "idle"}
                      /\ (new.pc = "idle") <=> (new.raised # None)
                      /\ new.pc = "hooks" => store' = save(store, old.rec[1]).store
                      /\ new.raised = Some("ClientError") => store' = store
                      /\ new.raised = Some("ReadTimeoutError")
                            => store' = save(store, old.rec[1]).store
                      /\ new.raised \in {None, Some("ClientError"),
                                         Some("ReadTimeoutError")}
             /\ new.raised # None
                   => /\ new.pc = "idle"
                      /\ new.result = None
                      /\ new.called = <<>>
                      /\ new.saves = 1]_vars

\* a save that raised ClientError: the caller moved its record to task_queued
\* in memory, the repository still holds it in issue_created
C14_Witness ==
    \E c \in Callers :
       /\ calls[c].raised = Some("ClientError")
       /\ calls[c].rec[1].state = "TASK_QUEUED"
       /\ Stored(store, RecordId(1)).state = "ISSUE_CREATED"
       /\ Len(hooks) >= 1

\* C15: LoopService.transition takes no lock and makes no version check: a
\* caller that is not in a call can always begin one and a caller that has
\* loaded and moved its record can always save it, whatever the other callers
\* do; the save does not look at what is stored, a save that returns leaves
\* the caller's record under the id even when the stored record is no longer
\* the one the caller loaded; and the call then returns success.  (The lost
\* update this allows is the state C15_Witness describes.)
C15_NoLockNoVersionCheck ==
    [][\A c \in Callers :
          \A old \in {calls[c]}, new \in {calls'[c]} :
             /\ old.pc = "idle" => ENABLED RunBegin(c)
             /\ old.pc = "save"
                   => /\ ENABLED RunSave(c)
                      /\ \A out \in {save_or_raise(store, old.rec[1], "saved")} :
                            /\ out.raised = None
                            /\ get(out.store, old.args.record_id) = old.rec
             /\ (old.pc = "save" /\ new.pc = "hooks")
                   => /\ get(store', old.args.record_id) = old.rec
                      /\ new.rec = old.rec
             /\ (old.pc = "hooks" /\ new.pc = "idle")
                   => /\ new.result[1].success
                      /\ new.result[1].previous_state = old.previous_state
                      /\ new.result[1].record = old.rec]_vars

\* a lost update: both callers loaded the record in issue_created before
\* either saved, both returned success for issue_created -> task_queued, and
\* the stored history holds the entry of caller b only
C15_Witness ==
    /\ \A c \in Callers :
          /\ calls[c].pc = "idle"
          /\ calls[c].result # None
          /\ calls[c].result[1].success
          /\ calls[c].result[1].previous_state = Some("ISSUE_CREATED")
          /\ calls[c].result[1].new_state = Some("TASK_QUEUED")
    /\ Triggers(Stored(store, RecordId(1))) = <<"created", "b">>

(***************************************************************************)
(* Properties of the racing calls (SpecRace).                              *)
(***************************************************************************)
\* serialized record data is well formed: its state is the to_state of its
\* last entry, its first entry is the 'created' one, and every later entry
\* is an edge of the table that starts where the entry before it ended
WellFormed(data) ==
    /\ Len(data.transitions) >= 1
    /\ data.state = Last(data.transitions).to_state
    /\ data.transitions[1].from_state = None
    /\ data.transitions[1].to_state = "issue_created"
    /\ data.transitions[1].trigger = "created"
    /\ \A k \in 2..Len(data.transitions) :
       \A e \in {data.transitions[k]} :
          /\ e.from_state = Some(data.transitions[k - 1].to_state)
          /\ <<LoopStateOf(e.from_state[1]), LoopStateOf(e.to_state)>> \in Edges

\* C25: however the callers' create and transition calls interleave at the
\* repository's get and save, everything the repository holds is well
\* formed and stored under its own record id.
C25_StoredWellFormed ==
    \A i \in 1..Len(store) :
       /\ store[i][2].record_id = store[i][1]
       /\ WellFormed(store[i][2])

\* a race that lost entries: caller b loaded the first record in pr_created
\* and is about to save it in ci_pending, while a save of a call that had
\* loaded it in issue_created has put it back to task_queued, two entries
C25_Witness ==
    /\ calls["b"].pc = "save"
    /\ calls["b"].args.record_id = RecordId(1)
    /\ calls["b"].rec[1].state = "CI_PENDING"
    /\ StoreGet(store, RecordId(1)) # None
    /\ StoreGet(store, RecordId(1))[1].state = "task_queued"
    /\ Len(StoreGet(store, RecordId(1))[1].transitions) = 2
    /\ Len(store) = 2

====
